---------------------------- MODULE Spec2Model ----------------------------
(***************************************************************************)
(* State-machine model of the Gemini Live front-end (App component of      *)
(* src/types.ts, lines 539-1293, and the client cache of                   *)
(* src/services/geminiService.ts).                                         *)
(*                                                                         *)
(* Every handler of the component is a pure operator from a state record   *)
(* to a state record (cleanup, onmessage, onopen, ...), composed exactly   *)
(* as the source composes them; an action applies one handler to the       *)
(* current state.  Time is counted in ticks of the output audio clock,     *)
(* texts are sequences of tokens (a transcript fragment is one token, the  *)
(* empty fragment is the empty sequence).                                  *)
(***************************************************************************)
EXTENDS Integers, Sequences, FiniteSets, TLC

\* ---------------------------------------------------------------- bounds
\* connect() calls that get past the key check, and log entries, in Spec
MaxConnects == 3
MaxLog == 6
\* log entries in SpecReconnect
MaxReconnectLog == 8
\* connect calls, capture blocks and frames processed, and log entries, in
\* SpecCapture
MaxCaptureCalls == 2
MaxChunks == 3
MaxCaptureLog == 6
\* the loudest sample, the analysers and the animation frames requested, in
\* SpecAvatar
MaxLevel == 2
MaxAnalysers == 2
MaxAvatarFrames == 6
\* clients constructed in SpecClient
MaxClients == 20
\* connect calls, messages delivered and log entries in SpecScheduler
MaxSchedulerCalls == 2
MaxSchedulerMessages == 2
MaxSchedulerLog == 6
\* messages delivered in Spec
MaxMessages == 1
\* the clock's last tick and its step, messages delivered (a message carries
\* at most one segment), and log entries, in SpecPlayback
MaxClock == 8
TickStep == 4
MaxSegs == 3
MaxPlaybackLog == 6
\* log entries in SpecSettings
MaxSettingsLog == 5
\* messages delivered (a message carries at most a fragment of each role),
\* and log entries, in SpecTranscript
MaxFrags == 3
MaxTranscriptLog == 6

Flows == 1..MaxConnects

\* ------------------------------------------------------------- constants
DISCONNECTED == "disconnected"
CONNECTING == "connecting"
CONNECTED == "connected"
ERROR == "error"
LiveStatus == {DISCONNECTED, CONNECTING, CONNECTED, ERROR}

\* The null reference, and a reference to x: an optional value is a sequence
\* of length at most one.
Null == <<>>
Some(x) == <<x>>
IsNull(r) == r = <<>>
Val(r) == r[1]

VARIABLES
    \* React state of App
    status, logs, streamingLog, apiKey, videoMode, showSettings,
    \* refs of App
    sessionRef, audioContextRef, inputAudioContextRef, audioStreamRef,
    videoStreamRef, audioSourceRef, processorRef, analyserRef,
    frameIntervalRef, nextStartTimeRef, audioSourcesRef, currentTranscriptRef,
    \* module state of services/geminiService.ts
    aiClient, currentApiKey,
    \* the platform objects the refs point to, by the connect() call that
    \* made them
    inCtx, outCtx, micStream, vidStream, srcNode, procNode, timer, session,
    clock, connectCall, nCalls,
    \* the session promises that have resolved, the sends waiting on the
    \* others, the capture blocks processed so far, and everything sent
    sessionResolved, thens, captured, sent,
    \* the input context in which the capture nodes of a session were made
    procIn,
    \* DigitalAvatar: its props, its state, its ref, the animation frames
    \* requested and not yet run, and the dependencies its effect last ran
    \* with
    isSessionActive, analyser, intensity, reqRef, frames, effectDeps,
    \* history: every segment ever started, every fragment ever delivered,
    \* the last handler that ran (and the sessions disconnected so far)
    scheduled, received, lastOp

vars == <<status, logs, streamingLog, apiKey, videoMode, showSettings,
          sessionRef, audioContextRef, inputAudioContextRef, audioStreamRef,
          videoStreamRef, audioSourceRef, processorRef, analyserRef,
          frameIntervalRef, nextStartTimeRef, audioSourcesRef,
          currentTranscriptRef, aiClient, currentApiKey,
          inCtx, outCtx, micStream, vidStream, srcNode, procNode, timer,
          session, clock, connectCall, nCalls,
          sessionResolved, thens, captured, sent, procIn,
          isSessionActive, analyser, intensity, reqRef, frames, effectDeps,
          scheduled, received, lastOp>>

\* The variables of DigitalAvatar, a component of its own.
avatarVars ==
    <<isSessionActive, analyser, intensity, reqRef, frames, effectDeps>>

\* The whole state as one record, so that handlers compose as functions.
State ==
    [status |-> status, logs |-> logs, streamingLog |-> streamingLog,
     apiKey |-> apiKey, videoMode |-> videoMode, showSettings |-> showSettings,
     sessionRef |-> sessionRef, audioContextRef |-> audioContextRef,
     inputAudioContextRef |-> inputAudioContextRef,
     audioStreamRef |-> audioStreamRef, videoStreamRef |-> videoStreamRef,
     audioSourceRef |-> audioSourceRef, processorRef |-> processorRef,
     analyserRef |-> analyserRef, frameIntervalRef |-> frameIntervalRef,
     nextStartTimeRef |-> nextStartTimeRef, audioSourcesRef |-> audioSourcesRef,
     currentTranscriptRef |-> currentTranscriptRef,
     aiClient |-> aiClient, currentApiKey |-> currentApiKey,
     inCtx |-> inCtx, outCtx |-> outCtx, micStream |-> micStream,
     vidStream |-> vidStream, srcNode |-> srcNode, procNode |-> procNode,
     timer |-> timer, session |-> session, clock |-> clock,
     connectCall |-> connectCall, nCalls |-> nCalls,
     sessionResolved |-> sessionResolved, thens |-> thens,
     captured |-> captured, sent |-> sent, procIn |-> procIn,
     scheduled |-> scheduled, received |-> received, lastOp |-> lastOp]

Becomes(s) ==
    /\ status' = s.status
    /\ logs' = s.logs
    /\ streamingLog' = s.streamingLog
    /\ apiKey' = s.apiKey
    /\ videoMode' = s.videoMode
    /\ showSettings' = s.showSettings
    /\ sessionRef' = s.sessionRef
    /\ audioContextRef' = s.audioContextRef
    /\ inputAudioContextRef' = s.inputAudioContextRef
    /\ audioStreamRef' = s.audioStreamRef
    /\ videoStreamRef' = s.videoStreamRef
    /\ audioSourceRef' = s.audioSourceRef
    /\ processorRef' = s.processorRef
    /\ analyserRef' = s.analyserRef
    /\ frameIntervalRef' = s.frameIntervalRef
    /\ nextStartTimeRef' = s.nextStartTimeRef
    /\ audioSourcesRef' = s.audioSourcesRef
    /\ currentTranscriptRef' = s.currentTranscriptRef
    /\ aiClient' = s.aiClient
    /\ currentApiKey' = s.currentApiKey
    /\ inCtx' = s.inCtx
    /\ outCtx' = s.outCtx
    /\ micStream' = s.micStream
    /\ vidStream' = s.vidStream
    /\ srcNode' = s.srcNode
    /\ procNode' = s.procNode
    /\ timer' = s.timer
    /\ session' = s.session
    /\ clock' = s.clock
    /\ connectCall' = s.connectCall
    /\ nCalls' = s.nCalls
    /\ sessionResolved' = s.sessionResolved
    /\ thens' = s.thens
    /\ captured' = s.captured
    /\ sent' = s.sent
    /\ procIn' = s.procIn
    /\ UNCHANGED avatarVars
    /\ scheduled' = s.scheduled
    /\ received' = s.received
    /\ lastOp' = s.lastOp


\* ---------------------------------------------------------------- helpers
Max(a, b) == IF a >= b THEN a ELSE b

\* addLog that keeps the three newest entries only.
addLogCapped(s, role, text) ==
    LET all == Append(s.logs, [role |-> role, text |-> text])
    IN  [s EXCEPT !.logs = IF Len(all) > 3
                           THEN SubSeq(all, Len(all) - 2, Len(all))
                           ELSE all]

\* addLog (src/types.ts 597-604): appends one entry; id and timestamp carry
\* no behaviour and are left out.
addLog(s, role, text) ==
    [s EXCEPT !.logs = Append(@, [role |-> role, text |-> text])]

\* A platform object is "none" (never made), "live", "released" (stopped,
\* closed, disconnected or cleared once) or "released2" (released again).
Release(st) ==
    IF st = "live" THEN "released"
    ELSE IF st = "released" THEN "released2" ELSE st

\* x.stop() / x.close() / x.disconnect() through a non-null ref.
ReleaseRef(objs, ref) ==
    IF IsNull(ref) THEN objs ELSE [objs EXCEPT ![Val(ref)] = Release(@)]

\* String.prototype.trim on a key, a sequence of characters.
RECURSIVE TrimStart(_)
TrimStart(k) ==
    IF k # <<>> /\ Head(k) = " " THEN TrimStart(Tail(k)) ELSE k

RECURSIVE TrimEnd(_)
TrimEnd(k) ==
    IF k # <<>> /\ k[Len(k)] = " " THEN TrimEnd(SubSeq(k, 1, Len(k) - 1)) ELSE k

Trim(k) == TrimEnd(TrimStart(k))

\* The keys the settings form may hold.
Keys == { <<>>, <<" ">>, <<" ", "k">> }

\* process.env.API_KEY of the build.
EnvApiKey == <<>>

\* source.stop() on every in-flight segment (the stop is counted on the
\* segment's history record).
StopAll(s) ==
    [i \in DOMAIN s.scheduled |->
        IF i \in s.audioSourcesRef
        THEN [s.scheduled[i] EXCEPT !.stops = @ + 1]
        ELSE s.scheduled[i]]

\* The sessions that live.connect has begun: the ones a disconnect ends.
Begun(s) == {c \in Flows : s.session[c] # "none"}

\* cleanup that stops the microphone stream but keeps its ref.
cleanupKeepsStreamRef(s) ==
    addLog(
        [s EXCEPT
            !.scheduled = StopAll(s),
            !.audioSourcesRef = {},
            !.procNode = ReleaseRef(@, s.processorRef),
            !.processorRef = Null,
            !.srcNode = ReleaseRef(@, s.audioSourceRef),
            !.audioSourceRef = Null,
            !.outCtx = ReleaseRef(@, s.audioContextRef),
            !.audioContextRef = Null,
            !.inCtx = ReleaseRef(@, s.inputAudioContextRef),
            !.inputAudioContextRef = Null,
            !.micStream = ReleaseRef(@, s.audioStreamRef),
            !.vidStream = ReleaseRef(@, s.videoStreamRef),
            !.videoStreamRef = Null,
            !.timer = ReleaseRef(@, s.frameIntervalRef),
            !.frameIntervalRef = Null,
            !.nextStartTimeRef = 0,
            !.sessionRef = Null,
            !.currentTranscriptRef = Null,
            !.streamingLog = Null,
            !.status = DISCONNECTED,
            !.lastOp = [@ EXCEPT !.cleaned = TRUE, !.resets = @ + 1,
                                 !.ended = @ \cup Begun(s)]],
        "system", <<"Session ended">>)

\* ---------------------------------------------------------------- cleanup
\* cleanup (src/types.ts 633-682), the disconnect() of the controller.
cleanup(s) ==
    addLog(
        [s EXCEPT
            !.scheduled = StopAll(s),
            !.audioSourcesRef = {},
            !.procNode = ReleaseRef(@, s.processorRef),
            !.processorRef = Null,
            !.srcNode = ReleaseRef(@, s.audioSourceRef),
            !.audioSourceRef = Null,
            !.outCtx = ReleaseRef(@, s.audioContextRef),
            !.audioContextRef = Null,
            !.inCtx = ReleaseRef(@, s.inputAudioContextRef),
            !.inputAudioContextRef = Null,
            !.micStream = ReleaseRef(@, s.audioStreamRef),
            !.audioStreamRef = Null,
            !.vidStream = ReleaseRef(@, s.videoStreamRef),
            !.videoStreamRef = Null,
            !.timer = ReleaseRef(@, s.frameIntervalRef),
            !.frameIntervalRef = Null,
            !.nextStartTimeRef = 0,
            !.sessionRef = Null,
            !.currentTranscriptRef = Null,
            !.streamingLog = Null,
            !.status = DISCONNECTED,
            !.lastOp = [@ EXCEPT !.cleaned = TRUE, !.resets = @ + 1,
                                 !.ended = @ \cup Begun(s)]],
        "system", <<"Session ended">>)

\* ------------------------------------------------------- geminiService.ts
\* getGenAIClient that makes a client once and returns it for every key.
getGenAIClientKeepsFirst(s, key) ==
    LET keyToUse == IF key # <<>> THEN key ELSE EnvApiKey
        fresh == [key |-> keyToUse, id |-> 1]
    IN  IF keyToUse = <<>>
        THEN [threw |-> TRUE, s |-> s]
        ELSE IF IsNull(s.aiClient)
             THEN [threw |-> FALSE,
                   s |-> [s EXCEPT !.aiClient = Some(fresh),
                                   !.currentApiKey = Some(keyToUse)]]
             ELSE [threw |-> FALSE, s |-> s]

\* getGenAIClient (src/services/geminiService.ts 26-41).  The result says
\* whether the call threw; a new client gets the next instance number.
getGenAIClient(s, key) ==
    LET keyToUse == IF key # <<>> THEN key ELSE EnvApiKey
        fresh == [key |-> keyToUse,
                  id |-> IF IsNull(s.aiClient) THEN 1 ELSE Val(s.aiClient).id + 1]
    IN  IF keyToUse = <<>>
        THEN [threw |-> TRUE, s |-> s]
        ELSE IF IsNull(s.aiClient) \/ s.currentApiKey # Some(keyToUse)
             THEN [threw |-> FALSE,
                   s |-> [s EXCEPT !.aiClient = Some(fresh),
                                   !.currentApiKey = Some(keyToUse)]]
             ELSE [threw |-> FALSE, s |-> s]

\* ---------------------------------------------------------------- connect
\* connect's catch block (src/types.ts 936-944): report, then cleanup().
connectCatch(s, c, message) ==
    cleanup(
        addLog([s EXCEPT !.connectCall[c].pc = "done"], "system",
               IF message = "503"
               THEN <<"Service Unavailable (503)">>
               ELSE <<"Connection failed", message>>))

\* connect from the analyser on (src/types.ts 740-934): runs without a
\* suspension point; createAnalyser on a null context is a TypeError.
connectFinish(s, c) ==
    IF IsNull(s.inputAudioContextRef)
    THEN connectCatch(s, c, "TypeError")
    ELSE LET s1 == addLog([s EXCEPT !.analyserRef = s.inputAudioContextRef],
                          "system", <<"Connecting to Gemini Live...">>)
             got == getGenAIClient(s1, s.connectCall[c].cleanKey)
         IN  IF got.threw
             THEN connectCatch(got.s, c, "Credentials are not set")
             ELSE [got.s EXCEPT !.session[c] = "opening",
                                !.sessionRef = Some(c),
                                !.connectCall[c].pc = "done"]

\* connect that looks at the key only after it has set the status and made
\* the audio contexts.
connectStartChecksLate(s) ==
    LET cleanKey == Trim(s.apiKey)
        c == s.nCalls + 1
        s1 == [addLog([s EXCEPT !.status = CONNECTING], "system",
                      <<"Initializing devices...">>)
                 EXCEPT !.inCtx[c] = "live",
                        !.inputAudioContextRef = Some(c),
                        !.outCtx[c] = "live",
                        !.audioContextRef = Some(c),
                        !.nCalls = c,
                        !.connectCall[c] = [pc |-> "mic", cleanKey |-> cleanKey,
                                            videoMode |-> s.videoMode,
                                            videoStream |-> Null]]
    IN  IF cleanKey = <<>>
        THEN [addLog(s1, "system", <<"Credentials missing">>)
                EXCEPT !.showSettings = TRUE, !.connectCall[c].pc = "done"]
        ELSE s1

\* connect up to the microphone prompt (src/types.ts 685-706).
connectStart(s) ==
    LET cleanKey == Trim(s.apiKey)
        c == s.nCalls + 1
    IN  IF cleanKey = <<>>
        THEN [addLog(s, "system", <<"Credentials missing">>)
                EXCEPT !.showSettings = TRUE]
        ELSE [addLog([s EXCEPT !.status = CONNECTING], "system",
                     <<"Initializing devices...">>)
                EXCEPT !.inCtx[c] = "live",
                       !.inputAudioContextRef = Some(c),
                       !.outCtx[c] = "live",
                       !.audioContextRef = Some(c),
                       !.nCalls = c,
                       !.connectCall[c] = [pc |-> "mic", cleanKey |-> cleanKey,
                                           videoMode |-> s.videoMode,
                                           videoStream |-> Null]]

\* The microphone prompt is granted (src/types.ts 706-732).
connectMicGranted(s, c) ==
    LET s1 == [s EXCEPT !.micStream[c] = "live", !.audioStreamRef = Some(c)]
    IN  IF s.connectCall[c].videoMode = "none"
        THEN connectFinish([s1 EXCEPT !.videoStreamRef = Null], c)
        ELSE [s1 EXCEPT !.connectCall[c].pc = "video"]

\* The camera or screen prompt is granted (src/types.ts 711-737): the
\* stream is attached and connect waits for the video element to play.
connectVideoGranted(s, c) ==
    [s EXCEPT !.vidStream[c] = "live",
              !.connectCall[c].videoStream = Some(c),
              !.videoStreamRef = Some(c),
              !.connectCall[c].pc = "play"]

\* connect that treats a denied camera or screen prompt like a denied
\* microphone prompt.
connectVideoDeniedFatal(s, c) ==
    connectCatch(s, c, "Permission denied")

\* The camera or screen prompt is denied or cancelled (src/types.ts 727-732).
connectVideoDenied(s, c) ==
    connectFinish(
        [addLog(s, "system", <<"Video/Screen access denied or cancelled">>)
            EXCEPT !.videoMode = "none", !.videoStreamRef = Null], c)

\* connect after the video element has started to play (src/types.ts 737).
connectPlayResolved(s, c) == connectFinish(s, c)

\* ------------------------------------------------------ session callbacks
\* onopen (src/types.ts 760-841).  The capture nodes and the frame timer it
\* makes are named after the session; videoStream is connect's local.
onopen(s, c) ==
    LET s1 == addLog([s EXCEPT !.status = CONNECTED], "system",
                     <<"Connected! Start talking.">>)
        s2 == [s1 EXCEPT !.srcNode[c] = "live", !.audioSourceRef = Some(c),
                         !.procNode[c] = "live", !.processorRef = Some(c),
                         !.procIn[c] = Val(s.inputAudioContextRef)]
    IN  IF IsNull(s.inputAudioContextRef) \/ IsNull(s.audioStreamRef)
        THEN s1
        ELSE IF IsNull(s.connectCall[c].videoStream)
             THEN s2
             ELSE [addLog(s2, "system", <<"Streaming feed...">>)
                     EXCEPT !.timer[c] = "live", !.frameIntervalRef = Some(c)]

\* session.sendRealtimeInput (src/types.ts 791, 827) on the session of call
\* c: what is sent is noted with whether it had waited for the promise, and
\* whether a disconnect had ended that session when it was captured and
\* when it was sent.
sendRealtimeInput(s, c, chunk) ==
    [s EXCEPT !.sent = Append(@, [session |-> c, kind |-> chunk.kind,
                                  n |-> chunk.n, waited |-> chunk.waited,
                                  queuedEnded |-> chunk.ended,
                                  ended |-> c \in s.lastOp.ended])]

\* sessionPromise.then(send) that runs the newest reaction first.
thenSendNewestFirst(s, c, chunk) ==
    IF c \in s.sessionResolved
    THEN sendRealtimeInput(s, c, chunk)
    ELSE [s EXCEPT !.thens[c] = <<[chunk EXCEPT !.waited = TRUE]>> \o @]

\* sessionPromise.then(session => session.sendRealtimeInput(..)) (src/types.ts
\* 790-792, 826-833): the reaction runs at once on a resolved promise and
\* waits behind the reactions registered before it on a pending one.
thenSend(s, c, chunk) ==
    IF c \in s.sessionResolved
    THEN sendRealtimeInput(s, c, chunk)
    ELSE [s EXCEPT !.thens[c] = Append(@, [chunk EXCEPT !.waited = TRUE])]

\* processor.onaudioprocess (src/types.ts 781-793): one capture block is
\* encoded and handed to the session promise; the blocks are numbered as
\* they are processed.
onaudioprocess(s, c) ==
    LET n == s.captured + 1
    IN  thenSend([s EXCEPT !.captured = n], c,
                 [kind |-> "audio", n |-> n, waited |-> FALSE,
                  ended |-> c \in s.lastOp.ended])

\* The frame interval callback (src/types.ts 811-837): a frame is encoded and
\* handed to the session promise when the video element has data.
frameInterval(s, c, ready) ==
    IF ~ready
    THEN s
    ELSE LET n == s.captured + 1
         IN  thenSend([s EXCEPT !.captured = n], c,
                      [kind |-> "video", n |-> n, waited |-> FALSE,
                       ended |-> c \in s.lastOp.ended])

\* The reactions of a promise run in the order of their registration.
RECURSIVE runReactions(_, _, _)
runReactions(s, c, reactions) ==
    IF reactions = <<>>
    THEN s
    ELSE runReactions(sendRealtimeInput(s, c, Head(reactions)), c,
                      Tail(reactions))

\* The promise of live.connect (src/types.ts 747) resolves with the session.
resolveSession(s, c) ==
    runReactions([s EXCEPT !.sessionResolved = @ \cup {c}, !.thens[c] = <<>>],
                 c, s.thens[c])

\* The output context's sample rate (src/types.ts 702) and the width of a
\* 16-bit sample in bytes.
SampleRate == 24000
SampleWidth == 2

\* pcmToAudioBuffer(decodeBase64(data), ctx): the decoded buffer of a payload
\* of the given number of bytes, its duration sampleCount / sampleRate in
\* ticks of a tenth of a second; a payload that is not a whole number of
\* samples does not decode.
pcmToAudioBuffer(bytes) ==
    [ok |-> bytes % SampleWidth = 0,
     duration |-> ((bytes \div SampleWidth) * 10) \div SampleRate]

\* A test that takes every string that is present, the empty one too.
Present(tr) == ~IsNull(tr)

\* A JavaScript truthy test of an optional string.
Truthy(tr) == ~IsNull(tr) /\ Val(tr) # <<>>

\* audioOutput without the Math.max against the output clock: a segment is
\* started at the cursor wherever the clock is.
audioOutputAtCursor(s, m) ==
    IF m.audio = 0 \/ IsNull(s.audioContextRef)
    THEN s
    ELSE LET ctx == Val(s.audioContextRef)
             audioBuffer == pcmToAudioBuffer(m.audio)
             start == s.nextStartTimeRef
             source == [ctx |-> ctx, arrival |-> s.clock[ctx], start |-> start,
                        duration |-> audioBuffer.duration, stops |-> 0,
                        epoch |-> s.lastOp.resets]
         IN  IF ~audioBuffer.ok
             THEN [s EXCEPT !.lastOp.threw = TRUE]
             ELSE [s EXCEPT !.nextStartTimeRef = start + audioBuffer.duration,
                            !.scheduled = Append(@, source),
                            !.audioSourcesRef = @ \cup {Len(s.scheduled) + 1}]

\* audioOutput that starts every segment at the output clock, whatever the
\* cursor says.
audioOutputAtClock(s, m) ==
    IF m.audio = 0 \/ IsNull(s.audioContextRef)
    THEN s
    ELSE LET ctx == Val(s.audioContextRef)
             audioBuffer == pcmToAudioBuffer(m.audio)
             start == s.clock[ctx]
             source == [ctx |-> ctx, arrival |-> s.clock[ctx], start |-> start,
                        duration |-> audioBuffer.duration, stops |-> 0,
                        epoch |-> s.lastOp.resets]
         IN  IF ~audioBuffer.ok
             THEN [s EXCEPT !.lastOp.threw = TRUE]
             ELSE [s EXCEPT !.nextStartTimeRef = start + audioBuffer.duration,
                            !.scheduled = Append(@, source),
                            !.audioSourcesRef = @ \cup {Len(s.scheduled) + 1}]

\* audioOutput that moves the cursor to the output clock plus the duration
\* of the segment, whatever was queued before.
audioOutputRestartsCursor(s, m) ==
    IF m.audio = 0 \/ IsNull(s.audioContextRef)
    THEN s
    ELSE LET ctx == Val(s.audioContextRef)
             audioBuffer == pcmToAudioBuffer(m.audio)
             start == Max(s.nextStartTimeRef, s.clock[ctx])
             source == [ctx |-> ctx, arrival |-> s.clock[ctx], start |-> start,
                        duration |-> audioBuffer.duration, stops |-> 0,
                        epoch |-> s.lastOp.resets]
         IN  IF ~audioBuffer.ok
             THEN [s EXCEPT !.lastOp.threw = TRUE]
             ELSE [s EXCEPT !.nextStartTimeRef =
                               s.clock[ctx] + audioBuffer.duration,
                            !.scheduled = Append(@, source),
                            !.audioSourcesRef = @ \cup {Len(s.scheduled) + 1}]

\* audioOutput that does not move the cursor past the segment it starts.
audioOutputKeepsCursor(s, m) ==
    IF m.audio = 0 \/ IsNull(s.audioContextRef)
    THEN s
    ELSE LET ctx == Val(s.audioContextRef)
             audioBuffer == pcmToAudioBuffer(m.audio)
             start == Max(s.nextStartTimeRef, s.clock[ctx])
             source == [ctx |-> ctx, arrival |-> s.clock[ctx], start |-> start,
                        duration |-> audioBuffer.duration, stops |-> 0,
                        epoch |-> s.lastOp.resets]
         IN  IF ~audioBuffer.ok
             THEN [s EXCEPT !.lastOp.threw = TRUE]
             ELSE [s EXCEPT !.nextStartTimeRef = start,
                            !.scheduled = Append(@, source),
                            !.audioSourcesRef = @ \cup {Len(s.scheduled) + 1}]

\* audioOutput that moves the cursor up to the output clock before it
\* decodes the payload.
audioOutputMovesCursorFirst(s, m) ==
    IF m.audio = 0 \/ IsNull(s.audioContextRef)
    THEN s
    ELSE LET ctx == Val(s.audioContextRef)
             audioBuffer == pcmToAudioBuffer(m.audio)
             start == Max(s.nextStartTimeRef, s.clock[ctx])
             source == [ctx |-> ctx, arrival |-> s.clock[ctx], start |-> start,
                        duration |-> audioBuffer.duration, stops |-> 0,
                        epoch |-> s.lastOp.resets]
         IN  IF ~audioBuffer.ok
             THEN [s EXCEPT !.nextStartTimeRef = start,
                            !.lastOp.threw = TRUE]
             ELSE [s EXCEPT !.nextStartTimeRef = start + audioBuffer.duration,
                            !.scheduled = Append(@, source),
                            !.audioSourcesRef = @ \cup {Len(s.scheduled) + 1}]

\* onmessage, audio output (src/types.ts 844-860).  A payload that does not
\* decode throws out of the handler before anything is changed.
audioOutput(s, m) ==
    IF m.audio = 0 \/ IsNull(s.audioContextRef)
    THEN s
    ELSE LET ctx == Val(s.audioContextRef)
             audioBuffer == pcmToAudioBuffer(m.audio)
             start == Max(s.nextStartTimeRef, s.clock[ctx])
             source == [ctx |-> ctx, arrival |-> s.clock[ctx], start |-> start,
                        duration |-> audioBuffer.duration, stops |-> 0,
                        epoch |-> s.lastOp.resets]
         IN  IF ~audioBuffer.ok
             THEN [s EXCEPT !.lastOp.threw = TRUE]
             ELSE [s EXCEPT !.nextStartTimeRef = start + audioBuffer.duration,
                            !.scheduled = Append(@, source),
                            !.audioSourcesRef = @ \cup {Len(s.scheduled) + 1}]

\* transcription that, on a role switch, relabels the pending utterance
\* instead of committing it.
transcriptionRelabels(s, tr, role) ==
    IF ~Truthy(tr)
    THEN s
    ELSE LET s2 == IF IsNull(s.currentTranscriptRef)
                   THEN [s EXCEPT !.currentTranscriptRef =
                                     Some([role |-> role, text |-> <<>>])]
                   ELSE [s EXCEPT !.currentTranscriptRef[1].role = role]
             s3 == [s2 EXCEPT !.currentTranscriptRef[1].text = @ \o Val(tr)]
         IN  [s3 EXCEPT !.streamingLog = s3.currentTranscriptRef]

\* transcription that, on a role switch, discards the pending utterance.
transcriptionDiscards(s, tr, role) ==
    IF ~Truthy(tr)
    THEN s
    ELSE LET cur == s.currentTranscriptRef
             s1 == IF ~IsNull(cur) /\ Val(cur).role # role
                   THEN [s EXCEPT !.currentTranscriptRef = Null]
                   ELSE s
             s2 == IF IsNull(s1.currentTranscriptRef)
                   THEN [s1 EXCEPT !.currentTranscriptRef =
                                      Some([role |-> role, text |-> <<>>])]
                   ELSE s1
             s3 == [s2 EXCEPT !.currentTranscriptRef[1].text = @ \o Val(tr)]
         IN  [s3 EXCEPT !.streamingLog = s3.currentTranscriptRef]

\* onmessage, one transcription block: input for role "user" (src/types.ts
\* 864-878), output for role "model" (880-894).
transcription(s, tr, role) ==
    IF ~Truthy(tr)
    THEN s
    ELSE LET cur == s.currentTranscriptRef
             s1 == IF ~IsNull(cur) /\ Val(cur).role # role
                   THEN [addLog(s, Val(cur).role, Val(cur).text)
                           EXCEPT !.currentTranscriptRef = Null]
                   ELSE s
             s2 == IF IsNull(s1.currentTranscriptRef)
                   THEN [s1 EXCEPT !.currentTranscriptRef =
                                      Some([role |-> role, text |-> <<>>])]
                   ELSE s1
             s3 == [s2 EXCEPT !.currentTranscriptRef[1].text = @ \o Val(tr)]
         IN  [s3 EXCEPT !.streamingLog = s3.currentTranscriptRef]

inputTranscription(s, m) == transcription(s, m.inputTr, "user")

outputTranscription(s, m) == transcription(s, m.outputTr, "model")

\* turnCompletion that logs the pending utterance and keeps it pending.
turnCompletionKeepsPending(s, m) ==
    IF m.turnComplete /\ ~IsNull(s.currentTranscriptRef)
    THEN addLog(s, Val(s.currentTranscriptRef).role,
                Val(s.currentTranscriptRef).text)
    ELSE s

\* onmessage, turn completion (src/types.ts 896-903).
turnCompletion(s, m) ==
    IF m.turnComplete /\ ~IsNull(s.currentTranscriptRef)
    THEN [addLog(s, Val(s.currentTranscriptRef).role,
                 Val(s.currentTranscriptRef).text)
            EXCEPT !.currentTranscriptRef = Null, !.streamingLog = Null]
    ELSE s

Interrupted == <<" [Interrupted]">>

\* interruption that stops the sources but leaves the cursor where it was.
interruptionKeepsCursor(s, m) ==
    IF ~m.interrupted
    THEN s
    ELSE LET s1 == [addLog(s, "system", <<"Interrupted by user.">>)
                      EXCEPT !.scheduled = StopAll(s),
                             !.audioSourcesRef = {},
                             !.lastOp.resets = @ + 1]
             cur == s.currentTranscriptRef
         IN  IF ~IsNull(cur) /\ Val(cur).role = "model"
             THEN [addLog(s1, "model", Val(cur).text \o Interrupted)
                     EXCEPT !.currentTranscriptRef = Null,
                            !.streamingLog = Null]
             ELSE s1

\* interruption that commits the pending utterance whatever its role.
interruptionCommitsAnyRole(s, m) ==
    IF ~m.interrupted
    THEN s
    ELSE LET s1 == [addLog(s, "system", <<"Interrupted by user.">>)
                      EXCEPT !.scheduled = StopAll(s),
                             !.audioSourcesRef = {},
                             !.nextStartTimeRef = 0,
                             !.lastOp.resets = @ + 1]
             cur == s.currentTranscriptRef
         IN  IF ~IsNull(cur)
             THEN [addLog(s1, Val(cur).role, Val(cur).text \o Interrupted)
                     EXCEPT !.currentTranscriptRef = Null,
                            !.streamingLog = Null]
             ELSE s1

\* onmessage, interruption (src/types.ts 905-918).
interruption(s, m) ==
    IF ~m.interrupted
    THEN s
    ELSE LET s1 == [addLog(s, "system", <<"Interrupted by user.">>)
                      EXCEPT !.scheduled = StopAll(s),
                             !.audioSourcesRef = {},
                             !.nextStartTimeRef = 0,
                             !.lastOp.resets = @ + 1]
             cur == s.currentTranscriptRef
         IN  IF ~IsNull(cur) /\ Val(cur).role = "model"
             THEN [addLog(s1, "model", Val(cur).text \o Interrupted)
                     EXCEPT !.currentTranscriptRef = Null,
                            !.streamingLog = Null]
             ELSE s1

\* onmessage (src/types.ts 842-919): the blocks in source order; an exception
\* in the audio block ends the handler.
onmessage(s, m) ==
    LET a == audioOutput(s, m)
    IN  IF a.lastOp.threw
        THEN a
        ELSE interruption(
                 turnCompletion(
                     outputTranscription(inputTranscription(a, m), m), m), m)

\* onclose that leaves the streaming entry on display.
oncloseKeepsStreamingLog(s) ==
    [addLog(s, "system", <<"Connection closed.">>)
        EXCEPT !.status = DISCONNECTED,
               !.currentTranscriptRef = Null]

\* onclose (src/types.ts 920-925).
onclose(s) ==
    [addLog(s, "system", <<"Connection closed.">>)
        EXCEPT !.status = DISCONNECTED,
               !.currentTranscriptRef = Null,
               !.streamingLog = Null]

\* onerror (src/types.ts 926-930).
onerror(s) ==
    [addLog(s, "system", <<"Error occurred. Check console.">>)
        EXCEPT !.status = ERROR]

\* handleSaveSettings (src/types.ts 616-631).
handleSaveSettings(s, key) ==
    addLog([s EXCEPT !.apiKey = key, !.showSettings = FALSE],
           "system", <<"Configuration updated.">>)

\* ------------------------------------------------------------------ Init
NoCall == [pc |-> "none", cleanKey |-> <<>>, videoMode |-> "none",
           videoStream |-> Null]

\* The state after the component is constructed (src/types.ts 551-594); the
\* stored key is any key.
Init ==
    /\ status = DISCONNECTED
    /\ logs = <<>>
    /\ streamingLog = Null
    /\ apiKey \in Keys
    /\ videoMode = "none"
    /\ showSettings = FALSE
    /\ sessionRef = Null
    /\ audioContextRef = Null
    /\ inputAudioContextRef = Null
    /\ audioStreamRef = Null
    /\ videoStreamRef = Null
    /\ audioSourceRef = Null
    /\ processorRef = Null
    /\ analyserRef = Null
    /\ frameIntervalRef = Null
    /\ nextStartTimeRef = 0
    /\ audioSourcesRef = {}
    /\ currentTranscriptRef = Null
    /\ aiClient = Null
    /\ currentApiKey = Null
    /\ inCtx = [c \in Flows |-> "none"]
    /\ outCtx = [c \in Flows |-> "none"]
    /\ micStream = [c \in Flows |-> "none"]
    /\ vidStream = [c \in Flows |-> "none"]
    /\ srcNode = [c \in Flows |-> "none"]
    /\ procNode = [c \in Flows |-> "none"]
    /\ timer = [c \in Flows |-> "none"]
    /\ session = [c \in Flows |-> "none"]
    /\ clock = [c \in Flows |-> 0]
    /\ connectCall = [c \in Flows |-> NoCall]
    /\ nCalls = 0
    /\ sessionResolved = {}
    /\ thens = [c \in Flows |-> <<>>]
    /\ captured = 0
    /\ sent = <<>>
    /\ procIn = [c \in Flows |-> 0]
    /\ isSessionActive = FALSE
    /\ analyser = Null
    /\ intensity = 0
    /\ reqRef = 0
    /\ frames = {}
    /\ effectDeps = <<Null, FALSE>>
    /\ scheduled = <<>>
    /\ received = <<>>
    /\ lastOp = [op |-> "init", arg |-> 0, cleaned |-> FALSE,
                 prevCleaned |-> FALSE, threw |-> FALSE, resets |-> 0,
                 messages |-> 0, ended |-> {}]

\* --------------------------------------------------------------- actions
\* The state at the start of a handler: the history notes which handler runs.
Begin(op, arg) ==
    [State EXCEPT !.lastOp = [@ EXCEPT !.op = op, !.arg = arg,
                                       !.cleaned = FALSE,
                                       !.prevCleaned = lastOp.cleaned,
                                       !.threw = FALSE]]

\* The Start Live button (src/types.ts 1209-1226): shown unless connecting
\* or connected, disabled while the key is empty.
StartLive ==
    /\ status \notin {CONNECTED, CONNECTING}
    /\ apiKey # <<>>
    /\ Trim(apiKey) = <<>> \/ nCalls < MaxConnects
    /\ Becomes(connectStart(Begin("connect", 0)))

\* The End Session button (src/types.ts 1209-1216).
EndSession ==
    /\ status \in {CONNECTED, CONNECTING}
    /\ Becomes(cleanup(Begin("disconnect", 0)))

MicGranted(c) ==
    /\ connectCall[c].pc = "mic"
    /\ Becomes(connectMicGranted(Begin("micGranted", c), c))

MicDenied(c) ==
    /\ connectCall[c].pc = "mic"
    /\ Becomes(connectCatch(Begin("micDenied", c), c, "Permission denied"))

VideoGranted(c) ==
    /\ connectCall[c].pc = "video"
    /\ Becomes(connectVideoGranted(Begin("videoGranted", c), c))

VideoDenied(c) ==
    /\ connectCall[c].pc = "video"
    /\ Becomes(connectVideoDenied(Begin("videoDenied", c), c))

PlayResolved(c) ==
    /\ connectCall[c].pc = "play"
    /\ Becomes(connectPlayResolved(Begin("playResolved", c), c))

\* The remote side opens, closes or fails a session that live.connect began.
RemoteOpen(c) ==
    /\ session[c] = "opening"
    /\ Becomes(onopen([Begin("onopen", c) EXCEPT !.session[c] = "open"], c))

RemoteClose(c) ==
    /\ session[c] \in {"opening", "open"}
    /\ Becomes(onclose([Begin("onclose", c) EXCEPT !.session[c] = "closed"]))

RemoteError(c) ==
    /\ session[c] \in {"opening", "open"}
    /\ Becomes(onerror(Begin("onerror", c)))

\* A message of the server: m.audio is the size of the inline audio payload
\* in bytes (0: none), a transcription is absent (Null), empty or one token.
Message(audio, inputTr, outputTr, turnComplete, interrupted) ==
    [audio |-> audio, inputTr |-> inputTr, outputTr |-> outputTr,
     turnComplete |-> turnComplete, interrupted |-> interrupted]

\* The n-th fragment delivered carries the token n.
Fragment(kind, n) ==
    IF kind = "absent" THEN Null
    ELSE IF kind = "empty" THEN Some(<<>>) ELSE Some(<<ToString(n)>>)

FragmentKinds == {"absent", "empty", "text"}

\* The fragments a message delivers, in the order onmessage reads them.
Delivered(m, threw) ==
    (IF IsNull(m.inputTr) THEN <<>>
     ELSE <<[role |-> "user", text |-> Val(m.inputTr), aborted |-> threw]>>)
    \o
    (IF IsNull(m.outputTr) THEN <<>>
     ELSE <<[role |-> "model", text |-> Val(m.outputTr), aborted |-> threw]>>)

\* The messages built from the given payload sizes and fragment kinds; the
\* output fragment is numbered after the input fragment.
Messages(payloads, inputKinds, outputKinds, completes, interrupts) ==
    { Message(a,
              Fragment(ik, Len(received) + 1),
              Fragment(ok, Len(received) + (IF ik = "absent" THEN 1 ELSE 2)),
              tc, ir) :
        a \in payloads, ik \in inputKinds, ok \in outputKinds,
        tc \in completes, ir \in interrupts }

RemoteMessage(c, m) ==
    /\ session[c] = "open"
    /\ LET s == onmessage(Begin("onmessage", m), m)
       IN  Becomes([s EXCEPT !.received = @ \o Delivered(m, s.lastOp.threw),
                             !.lastOp.messages = @ + 1])

\* The settings dialog (src/types.ts 955, 1065) and its form (616-631).
OpenSettings ==
    /\ ~showSettings
    /\ Becomes([Begin("openSettings", 0) EXCEPT !.showSettings = TRUE])

SaveSettings(key) ==
    /\ showSettings
    /\ Becomes(handleSaveSettings(Begin("saveSettings", 0), key))

\* The camera and screen buttons (src/types.ts 1181-1195), enabled while
\* disconnected: each toggles its mode.
SetVideoMode(mode) ==
    /\ status = DISCONNECTED
    /\ Becomes([Begin("setVideoMode", 0) EXCEPT
                  !.videoMode = IF videoMode = mode THEN "none" ELSE mode])

\* The clock of a running output context advances.
Tick(c) ==
    /\ outCtx[c] = "live"
    /\ clock[c] < MaxClock
    /\ Becomes([Begin("tick", c) EXCEPT !.clock[c] = @ + TickStep])

\* source.onended (src/types.ts 859): a segment that has played to its end
\* leaves the in-flight set.
SourceEnded(i) ==
    /\ i \in audioSourcesRef
    /\ clock[scheduled[i].ctx] >= scheduled[i].start + scheduled[i].duration
    /\ Becomes([Begin("onended", i) EXCEPT !.audioSourcesRef = @ \ {i}])

\* The promise of live.connect resolves once the session is open.
SessionResolved(c) ==
    /\ session[c] = "open"
    /\ c \notin sessionResolved
    /\ Becomes(resolveSession(Begin("resolved", c), c))

\* A capture block arrives at a processor that is connected, in a context
\* that has not been closed.
AudioProcess(c) ==
    /\ procNode[c] = "live"
    /\ inCtx[procIn[c]] = "live"
    /\ Becomes(onaudioprocess(Begin("onaudioprocess", c), c))

\* The frame interval of a session fires until it is cleared.
FrameInterval(c, ready) ==
    /\ timer[c] = "live"
    /\ Becomes(frameInterval(Begin("frameInterval", c), c, ready))

\* ---------------------------------------------------------- DigitalAvatar
\* The component (src/unnamed/part_000 8-46) as one record.
Avatar ==
    [isSessionActive |-> isSessionActive, analyser |-> analyser,
     intensity |-> intensity, reqRef |-> reqRef, frames |-> frames,
     effectDeps |-> effectDeps]

AvatarBecomes(a) ==
    /\ isSessionActive' = a.isSessionActive
    /\ analyser' = a.analyser
    /\ intensity' = a.intensity
    /\ reqRef' = a.reqRef
    /\ frames' = a.frames
    /\ effectDeps' = a.effectDeps

\* update (src/unnamed/part_000 22-41): publishes the sample val and
\* requests the next animation frame, whose id is kept in reqRef.
update(a, val) ==
    [a EXCEPT !.intensity = val,
              !.reqRef = a.reqRef + 1,
              !.frames = @ \cup {a.reqRef + 1}]

\* The cleanup the effect returns (src/unnamed/part_000 45), run by React
\* before the effect runs again: cancelAnimationFrame(reqRef.current), when
\* the last run of the effect returned it.
effectCleanup(a) ==
    IF a.effectDeps[2] /\ ~IsNull(a.effectDeps[1])
    THEN [a EXCEPT !.frames = @ \ {a.reqRef}]
    ELSE a

\* The effect (src/unnamed/part_000 12-46) for the props of the last render.
effect(a, val) ==
    LET a1 == [effectCleanup(a) EXCEPT
                  !.effectDeps = <<a.analyser, a.isSessionActive>>]
    IN  IF ~a.isSessionActive \/ IsNull(a.analyser)
        THEN [a1 EXCEPT !.intensity = 0]
        ELSE update(a1, val)

\* The variables of App, which DigitalAvatar does not touch.
appVars ==
    <<status, logs, streamingLog, apiKey, videoMode, showSettings,
      sessionRef, audioContextRef, inputAudioContextRef, audioStreamRef,
      videoStreamRef, audioSourceRef, processorRef, analyserRef,
      frameIntervalRef, nextStartTimeRef, audioSourcesRef,
      currentTranscriptRef, aiClient, currentApiKey,
      inCtx, outCtx, micStream, vidStream, srcNode, procNode, timer,
      session, clock, connectCall, nCalls,
      sessionResolved, thens, captured, sent, procIn,
      scheduled, received, lastOp>>

\* The samples update can compute: Math.min(1, Math.max(0, ..)) in steps.
Levels == 0..MaxLevel

\* The parent renders the component with other props; React runs the
\* effects of a render before it renders again.
AvatarRender(an, active) ==
    /\ effectDeps = <<analyser, isSessionActive>>
    /\ <<an, active>> # <<analyser, isSessionActive>>
    /\ AvatarBecomes([Avatar EXCEPT !.analyser = an,
                                    !.isSessionActive = active])
    /\ UNCHANGED appVars

\* React runs the effect after a render that changed its dependencies.
AvatarEffect(val) ==
    /\ effectDeps # <<analyser, isSessionActive>>
    /\ AvatarBecomes(effect(Avatar, val))
    /\ UNCHANGED appVars

\* A requested animation frame runs update.
AvatarFrame(id, val) ==
    /\ id \in frames
    /\ AvatarBecomes(update([Avatar EXCEPT !.frames = @ \ {id}], val))
    /\ UNCHANGED appVars

\* A caller asks for the client of a key.
GetClient(key) ==
    /\ LET got == getGenAIClient(Begin("getGenAIClient", key), key)
       IN  Becomes([got.s EXCEPT !.lastOp.threw = got.threw])

\* ------------------------------------------------------------------ Spec
\* The session lifecycle: every interleaving of the buttons, the permission
\* prompts and the remote events of up to MaxConnects sessions; a message
\* carries reply audio and a user fragment, the interrupted signal, or a
\* model fragment that completes the turn.
LifecycleMessages ==
    Messages({4800}, {"text"}, {"absent"}, {FALSE}, {FALSE})
    \cup Messages({0}, {"absent"}, {"absent"}, {FALSE}, {TRUE})
    \cup Messages({0}, {"absent"}, {"text"}, {TRUE}, {FALSE})

InLifecycle ==
    /\ Len(logs) <= MaxLog
    /\ lastOp.messages <= MaxMessages

Next ==
    \/ StartLive /\ InLifecycle'
    \/ EndSession /\ InLifecycle'
    \/ \E c \in Flows : MicGranted(c) /\ InLifecycle'
    \/ \E c \in Flows : MicDenied(c) /\ InLifecycle'
    \/ \E c \in Flows : VideoGranted(c) /\ InLifecycle'
    \/ \E c \in Flows : VideoDenied(c) /\ InLifecycle'
    \/ \E c \in Flows : PlayResolved(c) /\ InLifecycle'
    \/ \E c \in Flows : RemoteOpen(c) /\ InLifecycle'
    \/ \E c \in Flows : RemoteClose(c) /\ InLifecycle'
    \/ \E c \in Flows : RemoteError(c) /\ InLifecycle'
    \/ \E c \in Flows : \E m \in LifecycleMessages :
          RemoteMessage(c, m) /\ InLifecycle'
    \/ SetVideoMode("camera") /\ InLifecycle'

Spec == Init /\ [][Next]_vars

\* ---------------------------------------------------------- SpecPlayback
\* The playback scheduler: one session is brought up, then reply audio of
\* 0.5 s, 0.8 s and 1.0 s, payloads that do not decode, interrupted signals
\* and completed model fragments arrive while the output clock advances and
\* segments end.
PlaybackPayloads == {4801, 24000, 38400, 48000}

PlaybackMessages ==
    Messages(PlaybackPayloads, {"absent"}, {"absent"}, {FALSE}, {FALSE})
    \cup Messages({0, 24000}, {"absent"}, {"absent"}, {FALSE}, {TRUE})
    \cup Messages({0}, {"absent"}, {"text"}, {TRUE}, {FALSE})

InPlayback ==
    /\ lastOp.messages <= MaxSegs
    /\ Len(logs) <= MaxPlaybackLog

NextPlayback ==
    \/ StartLive /\ InPlayback'
    \/ \E c \in Flows : MicGranted(c) /\ InPlayback'
    \/ \E c \in Flows : RemoteOpen(c) /\ InPlayback'
    \/ \E c \in Flows : \E m \in PlaybackMessages :
          RemoteMessage(c, m) /\ InPlayback'
    \/ \E c \in Flows : Tick(c) /\ InPlayback'
    \/ \E i \in DOMAIN scheduled : SourceEnded(i) /\ InPlayback'

SpecPlayback == Init /\ [][NextPlayback]_vars

\* -------------------------------------------------------- SpecTranscript
\* The transcript reconciler: sessions are brought up, ended and closed by
\* the server while messages deliver fragments of either role, turn
\* completions and interrupted signals; one kind of message carries an
\* empty fragment, one a fragment behind an audio payload that does not
\* decode.
TranscriptMessages ==
    Messages({0}, {"absent", "text"}, {"absent", "text"}, BOOLEAN, BOOLEAN)
    \cup Messages({0}, {"empty"}, {"absent"}, {FALSE}, {FALSE})
    \cup Messages({4801}, {"text"}, {"absent"}, {FALSE}, {FALSE})

InTranscript ==
    /\ lastOp.messages <= MaxFrags
    /\ Len(logs) <= MaxTranscriptLog

NextTranscript ==
    \/ StartLive /\ InTranscript'
    \/ EndSession /\ InTranscript'
    \/ \E c \in Flows : MicGranted(c) /\ InTranscript'
    \/ \E c \in Flows : RemoteOpen(c) /\ InTranscript'
    \/ \E c \in Flows : RemoteClose(c) /\ InTranscript'
    \/ \E c \in Flows : \E m \in TranscriptMessages :
          RemoteMessage(c, m) /\ InTranscript'

SpecTranscript == Init /\ [][NextTranscript]_vars

\* ---------------------------------------------------------- SpecSettings
\* The settings dialog between sessions: the key is replaced by any key
\* while sessions are started, refused, opened, failed and ended.
InSettings == Len(logs) <= MaxSettingsLog

NextSettings ==
    \/ StartLive /\ InSettings'
    \/ EndSession /\ InSettings'
    \/ \E c \in Flows : MicGranted(c) /\ InSettings'
    \/ \E c \in Flows : MicDenied(c) /\ InSettings'
    \/ \E c \in Flows : RemoteOpen(c) /\ InSettings'
    \/ \E c \in Flows : RemoteError(c) /\ InSettings'
    \/ OpenSettings /\ InSettings'
    \/ \E key \in Keys : SaveSettings(key) /\ InSettings'

SpecSettings == Init /\ [][NextSettings]_vars

\* --------------------------------------------------------- SpecReconnect
\* Sessions started one after the other with audio only: the microphone
\* prompt is granted or denied, sessions open, fail and close, and the
\* session is ended and started again at any point.
InReconnect == Len(logs) <= MaxReconnectLog

NextReconnect ==
    \/ StartLive /\ InReconnect'
    \/ EndSession /\ InReconnect'
    \/ \E c \in Flows : MicGranted(c) /\ InReconnect'
    \/ \E c \in Flows : MicDenied(c) /\ InReconnect'
    \/ \E c \in Flows : RemoteOpen(c) /\ InReconnect'
    \/ \E c \in Flows : RemoteClose(c) /\ InReconnect'
    \/ \E c \in Flows : RemoteError(c) /\ InReconnect'

SpecReconnect == Init /\ [][NextReconnect]_vars

\* --------------------------------------------------------- SpecScheduler
\* The playback scheduler across sessions: sessions are started, ended and
\* closed by the server while reply audio of 0.1 s and 0.5 s and interrupted
\* signals arrive, the output clocks advance and segments end.
SchedulerMessages ==
    Messages({4800, 24000}, {"absent"}, {"absent"}, {FALSE}, {FALSE})
    \cup Messages({0}, {"absent"}, {"absent"}, {FALSE}, {TRUE})

InScheduler ==
    /\ nCalls <= MaxSchedulerCalls
    /\ lastOp.messages <= MaxSchedulerMessages
    /\ Len(logs) <= MaxSchedulerLog

NextScheduler ==
    \/ StartLive /\ InScheduler'
    \/ EndSession /\ InScheduler'
    \/ \E c \in Flows : MicGranted(c) /\ InScheduler'
    \/ \E c \in Flows : RemoteOpen(c) /\ InScheduler'
    \/ \E c \in Flows : RemoteClose(c) /\ InScheduler'
    \/ \E c \in Flows : \E m \in SchedulerMessages :
          RemoteMessage(c, m) /\ InScheduler'
    \/ \E c \in Flows : Tick(c) /\ InScheduler'
    \/ \E i \in DOMAIN scheduled : SourceEnded(i) /\ InScheduler'

SpecScheduler == Init /\ [][NextScheduler]_vars

\* ----------------------------------------------------------- SpecCapture
\* The capture path: sessions with or without a camera are started, opened,
\* failed and ended while their promises resolve, capture blocks are
\* processed and the frame interval fires.
InCapture ==
    /\ nCalls <= MaxCaptureCalls
    /\ captured <= MaxChunks
    /\ Len(logs) <= MaxCaptureLog

NextCapture ==
    \/ StartLive /\ InCapture'
    \/ EndSession /\ InCapture'
    \/ SetVideoMode("camera") /\ InCapture'
    \/ \E c \in Flows : MicGranted(c) /\ InCapture'
    \/ \E c \in Flows : VideoGranted(c) /\ InCapture'
    \/ \E c \in Flows : PlayResolved(c) /\ InCapture'
    \/ \E c \in Flows : RemoteOpen(c) /\ InCapture'
    \/ \E c \in Flows : RemoteError(c) /\ InCapture'
    \/ \E c \in Flows : SessionResolved(c) /\ InCapture'
    \/ \E c \in Flows : AudioProcess(c) /\ InCapture'
    \/ \E c \in Flows : \E ready \in BOOLEAN :
          FrameInterval(c, ready) /\ InCapture'

SpecCapture == Init /\ [][NextCapture]_vars

\* ------------------------------------------------------------ SpecAvatar
\* DigitalAvatar on its own: the parent changes the analyser and the
\* activity of the session, the effect follows each change, and animation
\* frames run in between.
AvatarAnalysers == {Null} \cup {Some(n) : n \in 1..MaxAnalysers}

InAvatar == reqRef <= MaxAvatarFrames

NextAvatar ==
    \/ \E an \in AvatarAnalysers : \E active \in BOOLEAN :
          AvatarRender(an, active) /\ InAvatar'
    \/ \E val \in Levels : AvatarEffect(val) /\ InAvatar'
    \/ \E id \in frames : \E val \in Levels :
          AvatarFrame(id, val) /\ InAvatar'

SpecAvatar == Init /\ [][NextAvatar]_vars

\* ------------------------------------------------------------ SpecClient
\* The client cache on its own: callers ask for the client of no key, of a
\* blank key and of two keys, in any order.
ClientKeys == Keys \cup { <<"k">> }

InClient == IsNull(aiClient) \/ Val(aiClient).id <= MaxClients

NextClient == \E key \in ClientKeys : GetClient(key) /\ InClient'

SpecClient == Init /\ [][NextClient]_vars

\* ------------------------------------------------------------ properties
\* The sessions that live.connect has begun and that are not closed.
OpenSessions == {c \in Flows : session[c] \in {"opening", "open"}}

\* The streams, audio contexts and capture nodes of call c that are still
\* live.
LiveObjects(c) ==
    {o \in {"inCtx", "outCtx", "micStream", "vidStream", "srcNode",
            "procNode"} : State[o][c] = "live"}

\* The state disconnect() is to leave behind in the controller itself.
TornDown ==
    /\ audioSourcesRef = {}
    /\ nextStartTimeRef = 0
    /\ IsNull(currentTranscriptRef)
    /\ status = DISCONNECTED

\* C6: after disconnect() (cleanup), in whatever status it was called, every
\* acquired stream is stopped, every audio context is closed, the capture
\* nodes are disconnected, the in-flight set is empty, the cursor is 0, the
\* pending utterance is Idle and the status is Disconnected.
C6_DisconnectReleasesEverything ==
    lastOp.cleaned => TornDown /\ \A c \in Flows : LiveObjects(c) = {}

\* C8: at most one remote session is open (begun by live.connect and not yet
\* closed) in every reachable state.
C8_AtMostOneOpenSession == Cardinality(OpenSessions) <= 1

\* C9: after disconnect() no session is left open.
C9_DisconnectLeavesNoOpenSession == lastOp.cleaned => OpenSessions = {}

\* The segments scheduled with no interruption and no disconnect since
\* segment j was scheduled.
SameRun(j, k) == scheduled[j].epoch = scheduled[k].epoch

SegmentEnd(k) == scheduled[k].start + scheduled[k].duration

\* C1: with no interruption or disconnect in between, segment k starts at
\* max(output clock at its arrival, start of segment k-1 + d(k-1)) (the first
\* segment at the clock of its arrival), the cursor afterwards is that start
\* + dk, and no two scheduled intervals overlap.
C1_SegmentsScheduledBackToBack ==
    \A k \in DOMAIN scheduled :
        /\ IF k > 1 /\ SameRun(k - 1, k)
           THEN scheduled[k].start =
                    Max(scheduled[k].arrival, SegmentEnd(k - 1))
           ELSE scheduled[k].start = scheduled[k].arrival
        /\ \A j \in 1..(k - 1) :
              SameRun(j, k) => SegmentEnd(j) <= scheduled[k].start
        /\ (k = Len(scheduled) /\ lastOp.resets = scheduled[k].epoch)
              => nextStartTimeRef = SegmentEnd(k)

\* Segments of 1.0 s, 0.5 s and 0.8 s that arrived at the same clock t0 > 0
\* are started at t0, t0 + 1.0 s and t0 + 1.5 s, the cursor at t0 + 2.3 s.
C1_Witness ==
    /\ Len(scheduled) = 3
    /\ <<scheduled[1].duration, scheduled[2].duration, scheduled[3].duration>>
          = <<10, 5, 8>>
    /\ scheduled[1].arrival > 0
    /\ \A k \in 1..3 : scheduled[k].arrival = scheduled[1].arrival
    /\ scheduled[2].start = scheduled[1].arrival + 10
    /\ scheduled[3].start = scheduled[1].arrival + 15
    /\ nextStartTimeRef = scheduled[1].arrival + 23

Range(seq) == {seq[i] : i \in DOMAIN seq}

\* The committed entries of the transcript, by their position in the log.
Committed == {i \in DOMAIN logs : logs[i].role \in {"user", "model"}}

\* The text of a committed entry without the marker of an interrupted model
\* entry.
Body(i) ==
    LET text == logs[i].text
    IN  IF /\ logs[i].role = "model"
           /\ Len(text) > 0
           /\ text[Len(text)] = Interrupted[1]
        THEN SubSeq(text, 1, Len(text) - 1)
        ELSE text

\* The fragments received whose text the reconciler was handed: the ones
\* with text, in messages whose handler reached the transcription blocks.
Accumulated ==
    {n \in DOMAIN received : received[n].text # <<>> /\ ~received[n].aborted}

\* The received fragments whose text is in committed entry i.
FragmentsIn(i) ==
    {n \in DOMAIN received :
        received[n].text # <<>> /\ received[n].text[1] \in Range(Body(i))}

\* The texts of the received fragments in the set, in arrival order.
RECURSIVE Concat(_)
Concat(ns) ==
    IF ns = {}
    THEN <<>>
    ELSE LET n == CHOOSE x \in ns : \A y \in ns : x <= y
         IN  received[n].text \o Concat(ns \ {n})

\* C3: every committed user or model entry has a single role and its text is
\* exactly the arrival-order concatenation of the fragments of that role
\* accumulated for it, a run of the accumulated fragments with none left out
\* (followed by the marker only for an interrupted model entry); no fragment
\* appears twice, within an entry or across entries.
C3_EntriesAreRunsOfOneRole ==
    /\ \A i \in Committed :
          LET ns == FragmentsIn(i)
          IN  /\ ns # {}
              /\ ns \subseteq Accumulated
              /\ \A n \in ns : received[n].role = logs[i].role
              /\ Body(i) = Concat(ns)
              /\ \A n \in Accumulated :
                    (\E lo, hi \in ns : lo <= n /\ n <= hi) => n \in ns
    /\ \A i, j \in Committed : i # j => FragmentsIn(i) \cap FragmentsIn(j) = {}

\* A user entry of two fragments is followed by an interrupted model entry.
C3_Witness ==
    \E i, j \in Committed :
        /\ i < j
        /\ logs[i] = [role |-> "user", text |-> <<"1", "2">>]
        /\ logs[j] = [role |-> "model", text |-> <<"3">> \o Interrupted]

\* C4: whenever the reconciler is Idle, every fragment received so far that
\* has text is contained in exactly one committed log entry.
C4_NoFragmentDropped ==
    IsNull(currentTranscriptRef) =>
        \A n \in DOMAIN received :
            received[n].text # <<>> =>
                Cardinality({i \in Committed : n \in FragmentsIn(i)}) = 1

\* C5: a fragment for role R handed to the reconciler while an utterance of
\* the other role R' is pending appends (R', text) to the log and leaves the
\* pending utterance exactly (R, fragment).
C5_RoleSwitchCommitsFirst ==
    \A R \in {"user", "model"} :
        LET cur == currentTranscriptRef
            fragment == <<ToString(Len(received) + 1)>>
            after == transcription(State, Some(fragment), R)
        IN  (~IsNull(cur) /\ Val(cur).role # R) =>
                /\ after.logs = Append(logs, [role |-> Val(cur).role,
                                              text |-> Val(cur).text])
                /\ after.currentTranscriptRef =
                       Some([role |-> R, text |-> fragment])

\* A message has delivered a user fragment while the model utterance "1" "2"
\* was pending: the model utterance is the last entry of the log and the
\* pending utterance is the user fragment alone.
C5_Witness ==
    /\ lastOp.op = "onmessage"
    /\ ~IsNull(lastOp.arg.inputTr)
    /\ Len(logs) > 0
    /\ logs[Len(logs)] = [role |-> "model", text |-> <<"1", "2">>]
    /\ currentTranscriptRef = Some([role |-> "user", text |-> <<"3">>])

\* What disconnect() tears down: the platform objects, the refs to them, the
\* scheduler, the reconciler and the status.
Teardown(s) ==
    [inCtx |-> s.inCtx, outCtx |-> s.outCtx, micStream |-> s.micStream,
     vidStream |-> s.vidStream, srcNode |-> s.srcNode,
     procNode |-> s.procNode, timer |-> s.timer,
     audioContextRef |-> s.audioContextRef,
     inputAudioContextRef |-> s.inputAudioContextRef,
     audioStreamRef |-> s.audioStreamRef,
     videoStreamRef |-> s.videoStreamRef,
     audioSourceRef |-> s.audioSourceRef, processorRef |-> s.processorRef,
     frameIntervalRef |-> s.frameIntervalRef, sessionRef |-> s.sessionRef,
     scheduled |-> s.scheduled, audioSourcesRef |-> s.audioSourcesRef,
     nextStartTimeRef |-> s.nextStartTimeRef,
     currentTranscriptRef |-> s.currentTranscriptRef,
     streamingLog |-> s.streamingLog, status |-> s.status]

\* No object has been released a second time, no segment stopped twice.
NoSecondRelease(s) ==
    /\ \A c \in Flows :
          \A o \in {"inCtx", "outCtx", "micStream", "vidStream", "srcNode",
                    "procNode", "timer"} : s[o][c] # "released2"
    /\ \A i \in DOMAIN s.scheduled : s.scheduled[i].stops <= 1

\* C7: from every reachable state, disconnected or not, a second disconnect()
\* right after a first releases nothing a second time and leaves the
\* resources, the scheduler, the reconciler and the status as the first call
\* left them.
C7_DisconnectIsIdempotent ==
    LET once == cleanup(State)
        twice == cleanup(once)
    IN  /\ NoSecondRelease(twice)
        /\ Teardown(twice) = Teardown(once)

\* cleanup has run twice in a row (the End Session button, then the catch
\* block of the connect() in flight), the first run having stopped a
\* microphone stream and closed the contexts.
C7_Witness ==
    /\ lastOp.cleaned /\ lastOp.prevCleaned
    /\ \E c \in Flows : micStream[c] = "released"
    /\ \E c \in Flows : outCtx[c] = "released" /\ inCtx[c] = "released"

\* C10: with an empty or whitespace-only key, connect() adds the log entry
\* that reports the missing credential, opens the settings, and changes
\* nothing else: the status is as it was, no audio context is made, no
\* device prompt is pending and no session is opened.
C10_BlankKeyConnectsNothing ==
    Trim(apiKey) = <<>> =>
        connectStart(State) =
            [State EXCEPT
                !.logs = Append(@, [role |-> "system",
                                    text |-> <<"Credentials missing">>]),
                !.showSettings = TRUE]

\* connect() has run with a whitespace-only key that replaced the key of an
\* earlier session: the status is still Disconnected and the report is the
\* last log entry.
C10_Witness ==
    /\ lastOp.op = "connect"
    /\ apiKey # <<>> /\ Trim(apiKey) = <<>>
    /\ ~IsNull(aiClient)
    /\ status = DISCONNECTED
    /\ showSettings
    /\ logs[Len(logs)] = [role |-> "system", text |-> <<"Credentials missing">>]

\* The last entries of the log are the given ones.
LogEndsWith(entries) ==
    /\ Len(logs) >= Len(entries)
    /\ SubSeq(logs, Len(logs) - Len(entries) + 1, Len(logs)) = entries

\* C11: when the microphone request of a connect() fails, that call opens
\* no session, the audio contexts it created are closed, a system log entry
\* reports the failure and the status is Disconnected.
C11_MicFailureTearsDown ==
    lastOp.op = "micDenied" =>
        /\ session[lastOp.arg] = "none"
        /\ inCtx[lastOp.arg] = "released"
        /\ outCtx[lastOp.arg] = "released"
        /\ LogEndsWith(<<[role |-> "system",
                          text |-> <<"Connection failed", "Permission denied">>],
                         [role |-> "system", text |-> <<"Session ended">>]>>)
        /\ status = DISCONNECTED

SystemEntry(text) == [role |-> "system", text |-> text]

VideoNotice == SystemEntry(<<"Video/Screen access denied or cancelled">>)

\* No frame timer is ever made for a session whose connect() got no video
\* stream.
NoFramesWithoutVideo ==
    \A c \in Flows : IsNull(connectCall[c].videoStream) => timer[c] = "none"

SessionTornDown(c) ==
    /\ LiveObjects(c) = {}
    /\ audioSourcesRef = {}
    /\ nextStartTimeRef = 0

\* C13: when a session reports an error, the status is Error, a system
\* notice is the last log entry, and the teardown is done: the streams of the
\* session are stopped, its audio contexts closed, the in-flight set is
\* empty and the cursor is 0.
C13_RemoteErrorTearsDown ==
    lastOp.op = "onerror" =>
        /\ status = ERROR
        /\ LogEndsWith(<<SystemEntry(<<"Error occurred. Check console.">>)>>)
        /\ SessionTornDown(lastOp.arg)

\* C14: when the server closes a session, the status is Disconnected, the
\* neutral notice is the last log entry, and the streams, audio contexts,
\* capture nodes and in-flight segments of the session are released.
C14_RemoteCloseReleases ==
    lastOp.op = "onclose" =>
        /\ status = DISCONNECTED
        /\ LogEndsWith(<<SystemEntry(<<"Connection closed.">>)>>)
        /\ SessionTornDown(lastOp.arg)

\* C15 as stated: every segment, interruptions in between or not, starts no
\* earlier than the output clock at its arrival and no earlier than the end
\* of the segment scheduled before it.
C15_StartsAfterClockAndPrevious ==
    \A k \in DOMAIN scheduled :
        /\ scheduled[k].start >= scheduled[k].arrival
        /\ k > 1 => scheduled[k].start >= SegmentEnd(k - 1)

\* C15 amended: every segment starts no earlier than the output clock at its
\* arrival, and no earlier than the end of the segment scheduled before it
\* unless an interruption or a disconnect has reset the cursor in between.
C15_StartsAfterClockAndPreviousOfRun ==
    \A k \in DOMAIN scheduled :
        /\ scheduled[k].start >= scheduled[k].arrival
        /\ (k > 1 /\ SameRun(k - 1, k))
              => scheduled[k].start >= SegmentEnd(k - 1)

\* A segment was queued behind its predecessor, later than the clock, and
\* after an interruption the next one was started at the clock, before the
\* end of the stopped one.
C15_Witness ==
    /\ Len(scheduled) = 3
    /\ SameRun(1, 2) /\ ~SameRun(2, 3)
    /\ scheduled[2].start > scheduled[2].arrival
    /\ scheduled[3].start = scheduled[3].arrival
    /\ scheduled[3].start < SegmentEnd(2)

\* C16: across every step the playback cursor does not decrease, except in
\* a step of the disconnect procedure or of a message carrying the
\* interrupted signal, which leaves it at 0.
C16_CursorNeverDecreases ==
    [][\/ nextStartTimeRef' >= nextStartTimeRef
       \/ /\ nextStartTimeRef' = 0
          /\ \/ lastOp'.cleaned
             \/ lastOp'.op = "onmessage" /\ lastOp'.arg.interrupted]_vars

\* Two segments were queued back to back, moving the cursor past 0, and the
\* End Session button then reset it.
C16_Witness ==
    /\ lastOp.op = "disconnect" /\ lastOp.cleaned
    /\ nextStartTimeRef = 0
    /\ Len(scheduled) >= 2
    /\ SameRun(1, 2)
    /\ scheduled[2].start = SegmentEnd(1)
    /\ scheduled[2].epoch < lastOp.resets

\* The in-flight segment that arrived last before in-flight segment j.
PreviousInFlight(j) ==
    { i \in audioSourcesRef :
        i < j /\ ~\E k \in audioSourcesRef : i < k /\ k < j }

\* C17 as stated: the intervals of the in-flight segments do not overlap,
\* and each in-flight segment starts exactly where the in-flight segment
\* that arrived before it ends.
C17_InFlightContiguous ==
    \A j \in audioSourcesRef :
        /\ \A i \in audioSourcesRef :
              i < j => SegmentEnd(i) <= scheduled[j].start
        /\ \A i \in PreviousInFlight(j) : scheduled[j].start = SegmentEnd(i)

\* C17 amended: the intervals of the in-flight segments do not overlap and
\* follow each other in arrival order, and an in-flight segment whose
\* predecessor is in flight starts where that one ends, or at the output
\* clock of its arrival when the predecessor had already played out.
C17_InFlightInOrder ==
    \A j \in audioSourcesRef :
        /\ \A i \in audioSourcesRef :
              i < j => SegmentEnd(i) <= scheduled[j].start
        /\ (j - 1) \in audioSourcesRef =>
              scheduled[j].start =
                  Max(SegmentEnd(j - 1), scheduled[j].arrival)

\* Two segments are in flight, the second queued behind the first and later
\* than the clock at its arrival.
C17_Witness ==
    /\ {1, 2} \subseteq audioSourcesRef
    /\ scheduled[2].start = SegmentEnd(1)
    /\ scheduled[2].start > scheduled[2].arrival

\* The state of the program without the history of the messages and of the
\* handlers.
ProgramState ==
    <<status, logs, streamingLog, apiKey, videoMode, showSettings,
      sessionRef, audioContextRef, inputAudioContextRef, audioStreamRef,
      videoStreamRef, audioSourceRef, processorRef, analyserRef,
      frameIntervalRef, nextStartTimeRef, audioSourcesRef,
      currentTranscriptRef, aiClient, currentApiKey,
      inCtx, outCtx, micStream, vidStream, srcNode, procNode, timer,
      session, clock, connectCall, nCalls,
      sessionResolved, thens, captured, sent, procIn, scheduled>>

\* The message that carries the turn-complete signal and nothing else.
TurnCompleteOnly == Message(0, Null, Null, TRUE, FALSE)

\* C18: a step that handles a turn-complete signal while the utterance
\* (R, text) is pending appends the one log entry (R, text) and leaves the
\* reconciler Idle; while the reconciler is Idle it changes nothing.
C18_TurnCompleteCommitsPending ==
    [][(lastOp'.op = "onmessage" /\ lastOp'.arg = TurnCompleteOnly) =>
          IF ~IsNull(currentTranscriptRef)
          THEN /\ logs' = Append(logs, [role |-> Val(currentTranscriptRef).role,
                                        text |-> Val(currentTranscriptRef).text])
               /\ currentTranscriptRef' = Null
               /\ streamingLog' = Null
          ELSE UNCHANGED ProgramState]_vars

\* The third message was a turn-complete signal: the user utterance "1" "2"
\* of the two messages before it is the last log entry and the reconciler is
\* Idle.
C18_Witness ==
    /\ lastOp.op = "onmessage" /\ lastOp.arg = TurnCompleteOnly
    /\ lastOp.messages = 3 /\ Len(received) = 2
    /\ logs[Len(logs)] = [role |-> "user", text |-> <<"1", "2">>]
    /\ IsNull(currentTranscriptRef) /\ IsNull(streamingLog)

\* The message that carries the interrupted signal and nothing else.
InterruptedOnly == Message(0, Null, Null, FALSE, TRUE)

\* C19: a step that handles an interrupted signal while a model utterance is
\* pending commits it as the model entry text + " [Interrupted]", after the
\* notice of the interruption, and leaves the reconciler Idle; while the
\* reconciler is Idle or holds a user utterance, the step leaves the pending
\* utterance as it is and appends the notice only.
C19_InterruptionCommitsModelOnly ==
    [][(lastOp'.op = "onmessage" /\ lastOp'.arg = InterruptedOnly) =>
          IF /\ ~IsNull(currentTranscriptRef)
             /\ Val(currentTranscriptRef).role = "model"
          THEN /\ logs' = logs \o
                     << SystemEntry(<<"Interrupted by user.">>),
                        [role |-> "model",
                         text |-> Val(currentTranscriptRef).text
                                     \o Interrupted] >>
               /\ currentTranscriptRef' = Null
               /\ streamingLog' = Null
          ELSE /\ logs' = Append(logs, SystemEntry(<<"Interrupted by user.">>))
               /\ UNCHANGED <<currentTranscriptRef, streamingLog>>]_vars

\* The third message was an interrupted signal while the model utterance
\* "1" "2" was pending: the marked entry is the last of the log, behind the
\* notice, and the reconciler is Idle.
C19_Witness ==
    /\ lastOp.op = "onmessage" /\ lastOp.arg = InterruptedOnly
    /\ lastOp.messages = 3 /\ Len(received) = 2
    /\ LogEndsWith(<< SystemEntry(<<"Interrupted by user.">>),
                      [role |-> "model",
                       text |-> <<"1", "2">> \o Interrupted] >>)
    /\ IsNull(currentTranscriptRef)

\* C20: a step that handles a message whose audio payload does not decode
\* changes nothing of the program: the cursor, the in-flight set, the status
\* and the session are as before.  The message handled next is scheduled, at
\* the later of the cursor and the output clock, and its model fragment is
\* committed on turn completion.
C20_DecodeFailureDropsSegment ==
    [][lastOp'.op = "onmessage" =>
          /\ lastOp'.threw => UNCHANGED ProgramState
          /\ (lastOp.threw /\ ~lastOp'.threw) =>
                LET m == lastOp'.arg
                IN  /\ (m.audio # 0 /\ ~IsNull(audioContextRef)) =>
                          /\ Len(scheduled') = Len(scheduled) + 1
                          /\ scheduled'[Len(scheduled')].start =
                                 Max(nextStartTimeRef,
                                     clock[Val(audioContextRef)])
                    /\ (Truthy(m.outputTr) /\ m.turnComplete
                           /\ IsNull(currentTranscriptRef)) =>
                          \E i \in DOMAIN logs' :
                              /\ i > Len(logs)
                              /\ logs'[i] = [role |-> "model",
                                             text |-> Val(m.outputTr)]]_vars

\* A payload that does not decode has just been handled while a segment
\* was in flight and the clock had passed the start of it: the session is
\* connected and the segment and the cursor are in place.
C20_Witness ==
    /\ lastOp.op = "onmessage" /\ lastOp.threw
    /\ status = CONNECTED
    /\ audioSourcesRef = {1}
    /\ nextStartTimeRef = SegmentEnd(1)
    /\ clock[scheduled[1].ctx] > scheduled[1].start

\* C21: the microphone chunks sent to a session are sent in the order in
\* which their capture blocks were processed, whether they waited for the
\* session promise or not.
C21_ChunksSentInCaptureOrder ==
    \A i, j \in DOMAIN sent :
        (/\ i < j
         /\ sent[i].session = sent[j].session
         /\ sent[i].kind = "audio" /\ sent[j].kind = "audio")
            => sent[i].n < sent[j].n

\* Three blocks have been sent to session 1, the first two captured before
\* its promise resolved and the third after.
C21_Witness ==
    /\ Len(sent) = 3
    /\ \A i \in 1..3 :
          /\ sent[i].session = 1 /\ sent[i].kind = "audio" /\ sent[i].n = i
          /\ sent[i].waited = (i < 3)

\* C22: a step that changes the status enters Connecting from Disconnected
\* only, Connected from Connecting only, and Error from Connecting or
\* Connected only.
C22_StatusMovesAlongLifecycle ==
    [][status' # status =>
          /\ status' = CONNECTING => status = DISCONNECTED
          /\ status' = CONNECTED => status = CONNECTING
          /\ status' = ERROR => status \in {CONNECTING, CONNECTED}]_vars

\* C23: every step leaves the log it found as a prefix of the log it
\* leaves: entries are added at the end and none is removed, moved or
\* changed.
C23_LogIsAppendOnly ==
    [][/\ Len(logs') >= Len(logs)
       /\ SubSeq(logs', 1, Len(logs)) = logs]_vars

\* A session was started, opened, delivered a completed model fragment and
\* was ended: the log holds the entries of all of them in that order.
C23_Witness ==
    /\ Len(logs) = 5
    /\ logs[1] = SystemEntry(<<"Initializing devices...">>)
    /\ logs[2] = SystemEntry(<<"Connecting to Gemini Live...">>)
    /\ logs[3] = SystemEntry(<<"Connected! Start talking.">>)
    /\ logs[4] = [role |-> "model", text |-> <<"1">>]
    /\ logs[5] = SystemEntry(<<"Session ended">>)

\* The session is inactive for the sampler: not active, or without analyser.
SamplerInactive == ~isSessionActive \/ IsNull(analyser)

\* C24 as stated: from the moment the session is inactive or there is no
\* analyser, no step publishes a value other than 0.
C24_InactiveSamplerIsSilent ==
    [][SamplerInactive => (intensity' # intensity => intensity' = 0)]_vars

\* What the effect does establish: once it has run for props with an
\* inactive session or no analyser, the published intensity is 0 and no
\* animation frame is pending.
SamplerSilentAfterEffect ==
    (SamplerInactive /\ effectDeps = <<analyser, isSessionActive>>)
        => intensity = 0 /\ frames = {}

\* Every session begun so far has been ended by a disconnect, and no
\* connect() is under way.
AllSessionsEnded ==
    /\ Begun(State) \subseteq lastOp.ended
    /\ \A c \in Flows : connectCall[c].pc \in {"none", "done"}

\* The callbacks of a session.
SessionCallbacks == {"onopen", "onmessage", "onclose", "onerror"}

\* C25: while every session has been ended by a disconnect and no connect()
\* is under way, a step of a session callback leaves the status, the pending
\* utterance and the log as they are.
C25_LateCallbacksChangeNothing ==
    [][(AllSessionsEnded /\ lastOp'.op \in SessionCallbacks)
          => UNCHANGED <<status, currentTranscriptRef, logs>>]_vars

\* C26: every stream that has been acquired and not stopped, and every
\* audio context that has been created and not closed, is the one its ref
\* holds.
C26_LiveObjectsAreHeld ==
    \A c \in Flows :
        /\ micStream[c] = "live" => audioStreamRef = Some(c)
        /\ vidStream[c] = "live" => videoStreamRef = Some(c)
        /\ inCtx[c] = "live" => inputAudioContextRef = Some(c)
        /\ outCtx[c] = "live" => audioContextRef = Some(c)

\* C27: nothing is sent to a session that a disconnect has ended, neither a
\* chunk or frame captured after the disconnect nor one that was waiting for
\* the session promise.
C27_NothingSentAfterDisconnect ==
    \A i \in DOMAIN sent : ~sent[i].ended

\* C28: after every handler the streaming entry on display is the pending
\* utterance of the reconciler: null when it is Idle, the same role and text
\* otherwise.
C28_StreamingLogIsPending ==
    streamingLog = currentTranscriptRef

\* Two messages have delivered model fragments: the utterance "1" "2" is
\* pending and on display.
C28_Witness ==
    /\ lastOp.op = "onmessage" /\ lastOp.messages = 2
    /\ currentTranscriptRef = Some([role |-> "model", text |-> <<"1", "2">>])
    /\ streamingLog = Some([role |-> "model", text |-> <<"1", "2">>])

\* The message that carries an empty user fragment and nothing else.
EmptyFragmentOnly == Message(0, Some(<<>>), Null, FALSE, FALSE)

\* C29: a pending utterance has text, every committed user or model entry
\* has text, and a step that handles an empty fragment changes nothing: it
\* starts no utterance and commits none.
C29_NoEmptyUtterance ==
    /\ [](/\ ~IsNull(currentTranscriptRef)
             => Val(currentTranscriptRef).text # <<>>
          /\ \A i \in Committed : logs[i].text # <<>>)
    /\ [][(lastOp'.op = "onmessage" /\ lastOp'.arg = EmptyFragmentOnly)
             => UNCHANGED ProgramState]_vars

\* An empty user fragment has been handled while the model utterance "1"
\* was pending: it is still pending and the log holds no committed entry.
C29_Witness ==
    /\ lastOp.op = "onmessage" /\ lastOp.arg = EmptyFragmentOnly
    /\ currentTranscriptRef = Some([role |-> "model", text |-> <<"1">>])
    /\ Committed = {}

\* C30: the cached client and the cached key correspond; a call that finds
\* no key throws and leaves both as they were; any other call leaves the
\* client of the key it was given in the cache, the same instance as before
\* when that was the cached key and a new instance otherwise.
C30_ClientCacheFollowsKey ==
    /\ [](/\ IsNull(aiClient) <=> IsNull(currentApiKey)
          /\ ~IsNull(aiClient) => Some(Val(aiClient).key) = currentApiKey)
    /\ [][lastOp'.op = "getGenAIClient" =>
             IF lastOp'.arg = <<>>
             THEN lastOp'.threw /\ UNCHANGED <<aiClient, currentApiKey>>
             ELSE /\ ~lastOp'.threw
                  /\ Val(aiClient').key = lastOp'.arg
                  /\ IF currentApiKey = Some(lastOp'.arg)
                     THEN aiClient' = aiClient
                     ELSE aiClient' # aiClient]_vars

\* The third client has just been made: a call has replaced the client of
\* another key by one of the key "k".
C30_Witness ==
    /\ lastOp.op = "getGenAIClient" /\ lastOp.arg = <<"k">>
    /\ aiClient = Some([key |-> <<"k">>, id |-> 3])
    /\ currentApiKey = Some(<<"k">>)

=============================================================================
